---- MODULE Spec2Model ----
(***************************************************************************)
(* Honeybadger MCP server (server.py): the request builder _make_request   *)
(* and the tool functions built on it.  An invocation of a tool binds its  *)
(* arguments, assembles the query/body mappings, and hands them to         *)
(* _make_request, which either returns at once (no token), raises (bad     *)
(* verb), or sends one HTTP request and blocks until the transport         *)
(* answers.                                                                *)
(***************************************************************************)
EXTENDS Integers, Sequences, FiniteSets, TLC

(***************************************************************************)
(* Bounds of the model.                                                    *)
(***************************************************************************)
\* project and fault identifiers range over 0..MaxId
MaxId == 1
\* at most MaxRequests HTTP requests are sent in one run
MaxRequests == 2

(***************************************************************************)
(* Python values.  Every argument value carries its type, so that None, 0, *)
(* "" and False stay distinct values that are all false in a truth test.   *)
(***************************************************************************)
None == [t |-> "None"]
PyInt(n) == [t |-> "int", v |-> n]
PyStr(s) == [t |-> "str", v |-> s]
PyBool(b) == [t |-> "bool", v |-> b]
\* an argument the caller did not pass: the declared default is bound
Omitted == [t |-> "omitted"]

\* Python's truth test `if x:`
Truthy(x) == x \notin {None, PyInt(0), PyStr(""), PyBool(FALSE)}
\* the test left out: the item is assigned whatever the value
IsNotNone_unconditional(x) == TRUE

\* Python's `x is not None`
IsNotNone(x) == x # None
\* binding of a keyword parameter with a declared default
Bind(arg, default) == IF arg = Omitted THEN default ELSE arg

\* dict literals and conditional item assignment
EmptyDict == [k \in {} |-> None]
Item(cond, key, value) == IF cond THEN key :> value ELSE EmptyDict

(***************************************************************************)
(* Argument domains.                                                       *)
(***************************************************************************)
Ids == 0..MaxId
Opt(S) == {None} \cup S
WithDefault(S) == {Omitted} \cup S
Bools == {PyBool(FALSE), PyBool(TRUE)}
Ints(n) == {PyInt(0), PyInt(n)}
Strs(s) == {PyStr(""), PyStr(s)}
IdValues == {PyInt(i) : i \in Ids}

Callers == {"c1", "c2"}

(***************************************************************************)
(* Configuration (module level).                                           *)
(***************************************************************************)
HONEYBADGER_BASE_URL == "https://app.honeybadger.io/v2"
\* os.getenv: None when the variable is not set, else its (maybe empty) text
TokenValues == {None, PyStr(""), PyStr("hbp_secret")}

VARIABLES
    HONEYBADGER_API_TOKEN, \* the module-level token, read at import
    active,                \* the callers that invoke tools in this run
    pc,                    \* per caller: "idle", "waiting" (blocked in the HTTP call), "done"
    op,                    \* per caller: the function invoked
    args,                  \* per caller: the arguments as passed
    call,                  \* per caller: the arguments _make_request was called with, or NoCall
    sent,                  \* per caller: the HTTP request this invocation sent, or NoRequest
    response,              \* per caller: what the transport produced, or NoResponse
    parsed,                \* per caller: whether response.json() was invoked
    result,                \* per caller: the value returned or the exception raised
    http_requests          \* number of HTTP requests sent so far

vars == <<HONEYBADGER_API_TOKEN, active, pc, op, args, call, sent, response,
          parsed, result, http_requests>>

NoCall == [t |-> "nocall"]
NoRequest == [t |-> "norequest"]
NoResponse == [t |-> "noresponse"]
NoResult == [kind |-> "none"]
Returned(v) == [kind |-> "returned", value |-> v]
Raised(e) == [kind |-> "raised", exc |-> e]

(***************************************************************************)
(* _make_request                                                           *)
(***************************************************************************)
CREDENTIAL_MISSING ==
    "Honeybadger API token is not configured. Please set HONEYBADGER_API_TOKEN in your .env file."
ErrorDict(msg) == [error |-> msg]
SUCCESS == [status |-> "success"]

SupportedMethods == {"GET", "POST", "PUT", "DELETE"}
BodyMethods == {"POST", "PUT"}

\* the credential check left out
TokenConfigured_unchecked == TRUE

\* `if not HONEYBADGER_API_TOKEN` fails: a token is configured
TokenConfigured == Truthy(HONEYBADGER_API_TOKEN)

\* the 204 branch left out
NoContent_never(status) == FALSE

\* `response.status_code == 204`
NoContent(status) == status = 204

\* a bearer header in place of HTTP Basic credentials
HttpRequest_bearer(endpoint, method, params, data) ==
    [ method |-> method,
      url |-> HONEYBADGER_BASE_URL \o "/" \o endpoint,
      auth |-> <<None, "">>,
      headers |-> [Accept |-> "application/json", ContentType |-> "application/json",
                   Authorization |-> "Bearer"],
      params |-> params,
      json |-> IF method \in BodyMethods THEN data ELSE None ]

\* the request handed to requests.get/post/put/delete: json= is passed by
\* post and put only
HttpRequest(endpoint, method, params, data) ==
    [ method |-> method,
      url |-> HONEYBADGER_BASE_URL \o "/" \o endpoint,
      auth |-> <<HONEYBADGER_API_TOKEN, "">>,
      headers |-> [Accept |-> "application/json", ContentType |-> "application/json"],
      params |-> params,
      json |-> IF method \in BodyMethods THEN data ELSE None ]

\* `except Exception` in place of RequestException
RequestException_Exception ==
    {"ConnectionError", "Timeout", "HTTPError", "JSONDecodeError", "ValueError"}

\* `except requests.exceptions.HTTPError` in place of RequestException
RequestException_HTTPErrorOnly == {"HTTPError"}

\* the exception classes that `except requests.exceptions.RequestException` catches
RequestException == {"ConnectionError", "Timeout", "HTTPError", "JSONDecodeError"}

\* the call of raise_for_status left out
raise_for_status_skipped(status) == "none"

\* response.raise_for_status(): the exception it raises, or "none"
raise_for_status(status) ==
    IF 400 <= status /\ status < 600 THEN "HTTPError" ELSE "none"

\* str(e) of the exceptions of the transport
Reason(status) ==
    CASE status = 404 -> "Not Found"
      [] status = 500 -> "Internal Server Error"
      [] OTHER -> ""
HTTPErrorText(status, url) ==
    ToString(status)
        \o (IF status < 500 THEN " Client Error: " ELSE " Server Error: ")
        \o Reason(status) \o " for url: " \o url
ExceptionText(exc) ==
    CASE exc = "ConnectionError" -> "Connection refused"
      [] exc = "Timeout" -> "Read timed out"
      [] exc = "JSONDecodeError" -> "Expecting value: line 1 column 1 (char 0)"
      [] OTHER -> exc

\* the response bodies the remote service answers with, and response.json()
BodyTexts == {"", "[]", "{\"error\":\"remote\"}"}
IsJson(text) == text \in {"[]", "{\"error\":\"remote\"}"}
json(text) ==
    CASE text = "[]" -> <<>>
      [] text = "{\"error\":\"remote\"}" -> [error |-> "remote"]

Statuses == {200, 201, 204, 404, 500}
TransportFaults == {"ConnectionError", "Timeout"}
Outcomes ==
    [kind : {"response"}, status : Statuses, text : BodyTexts]
        \cup [kind : {"fault"}, exc : TransportFaults]

\* the except clause of _make_request: a RequestException becomes an error
\* mapping, anything else propagates
Except(exc, text) ==
    IF exc \in RequestException THEN Returned(ErrorDict(text)) ELSE Raised(exc)

\* server.py 61-89: credential check, verb dispatch, the HTTP call
_make_request(c, endpoint, method, params, data) ==
    /\ call' = [call EXCEPT ![c] =
                  [endpoint |-> endpoint, method |-> method, params |-> params, data |-> data]]
    /\ UNCHANGED <<response, parsed>>
    /\ IF ~TokenConfigured
       THEN /\ result' = [result EXCEPT ![c] = Returned(ErrorDict(CREDENTIAL_MISSING))]
            /\ pc' = [pc EXCEPT ![c] = "done"]
            /\ UNCHANGED <<sent, http_requests>>
       ELSE IF method \notin SupportedMethods
       THEN /\ result' = [result EXCEPT ![c] = Except("ValueError", "Unsupported HTTP method: " \o method)]
            /\ pc' = [pc EXCEPT ![c] = "done"]
            /\ UNCHANGED <<sent, http_requests>>
       ELSE /\ sent' = [sent EXCEPT ![c] = HttpRequest(endpoint, method, params, data)]
            /\ http_requests' = http_requests + 1
            /\ pc' = [pc EXCEPT ![c] = "waiting"]
            /\ UNCHANGED result

\* server.py 91-104: what _make_request makes of the transport's outcome;
\* [result, parsed]
Completion(o, url) ==
    IF o.kind = "fault"
    THEN [result |-> Except(o.exc, ExceptionText(o.exc)), parsed |-> FALSE]
    ELSE IF raise_for_status(o.status) # "none"
    THEN [result |-> Except(raise_for_status(o.status), HTTPErrorText(o.status, url)),
          parsed |-> FALSE]
    ELSE IF NoContent(o.status)
    THEN [result |-> Returned(SUCCESS), parsed |-> FALSE]
    ELSE IF IsJson(o.text)
    THEN [result |-> Returned(json(o.text)), parsed |-> TRUE]
    ELSE [result |-> Except("JSONDecodeError", ExceptionText("JSONDecodeError")),
          parsed |-> TRUE]

\* the response kept in one module-level slot: the answer to one call is
\* taken by every call that is blocked
receive_response_shared(c) ==
    /\ pc[c] = "waiting"
    /\ \E o \in Outcomes :
          /\ response' = [d \in Callers |-> IF pc[d] = "waiting" THEN o ELSE response[d]]
          /\ result' = [d \in Callers |->
                          IF pc[d] = "waiting"
                          THEN Completion(o, sent[c].url).result ELSE result[d]]
          /\ parsed' = [d \in Callers |->
                          IF pc[d] = "waiting"
                          THEN Completion(o, sent[c].url).parsed ELSE parsed[d]]
    /\ pc' = [d \in Callers |-> IF pc[d] = "waiting" THEN "done" ELSE pc[d]]
    /\ UNCHANGED <<HONEYBADGER_API_TOKEN, active, op, args, call, sent, http_requests>>

\* a retry: after a transport fault the request is sent once more
receive_response_retry(c) ==
    /\ pc[c] = "waiting"
    /\ \E o \in Outcomes :
          IF o.kind = "fault"
          THEN /\ http_requests' = http_requests + 1
               /\ UNCHANGED <<pc, response, result, parsed>>
          ELSE /\ response' = [response EXCEPT ![c] = o]
               /\ result' = [result EXCEPT ![c] = Completion(o, sent[c].url).result]
               /\ parsed' = [parsed EXCEPT ![c] = Completion(o, sent[c].url).parsed]
               /\ pc' = [pc EXCEPT ![c] = "done"]
               /\ UNCHANGED http_requests
    /\ UNCHANGED <<HONEYBADGER_API_TOKEN, active, op, args, call, sent>>

\* the blocked HTTP call of caller c ends, and _make_request and the tool return
receive_response(c) ==
    /\ pc[c] = "waiting"
    /\ \E o \in Outcomes :
          /\ response' = [response EXCEPT ![c] = o]
          /\ result' = [result EXCEPT ![c] = Completion(o, sent[c].url).result]
          /\ parsed' = [parsed EXCEPT ![c] = Completion(o, sent[c].url).parsed]
    /\ pc' = [pc EXCEPT ![c] = "done"]
    /\ UNCHANGED <<HONEYBADGER_API_TOKEN, active, op, args, call, sent, http_requests>>

(***************************************************************************)
(* Tool invocations.                                                       *)
(***************************************************************************)
\* caller c may start an invocation
CanInvoke(c) ==
    /\ c \in active
    /\ pc[c] = "idle"
    /\ http_requests < MaxRequests

\* the frame of an invocation: function name and arguments as passed
Enter(c, name, a) ==
    /\ op' = [op EXCEPT ![c] = name]
    /\ args' = [args EXCEPT ![c] = a]
    /\ UNCHANGED <<HONEYBADGER_API_TOKEN, active>>

\* a tool returns a value without calling _make_request
ReturnLocal(c, v) ==
    /\ result' = [result EXCEPT ![c] = Returned(v)]
    /\ pc' = [pc EXCEPT ![c] = "done"]
    /\ UNCHANGED <<call, sent, response, parsed, http_requests>>

\* the caller takes the result; its next invocation starts afresh
take_result(c) ==
    /\ pc[c] = "done"
    /\ pc' = [pc EXCEPT ![c] = "idle"]
    /\ op' = [op EXCEPT ![c] = "none"]
    /\ args' = [args EXCEPT ![c] = EmptyDict]
    /\ call' = [call EXCEPT ![c] = NoCall]
    /\ sent' = [sent EXCEPT ![c] = NoRequest]
    /\ response' = [response EXCEPT ![c] = NoResponse]
    /\ parsed' = [parsed EXCEPT ![c] = FALSE]
    /\ result' = [result EXCEPT ![c] = NoResult]
    /\ UNCHANGED <<HONEYBADGER_API_TOKEN, active, http_requests>>

\* the defaults the signatures declare (None where the code declares None)
Default(name, arg) ==
    CASE arg = "limit" -> PyInt(25)
      [] arg = "order" -> PyStr("recent")
      [] arg = "period" /\ name = "get_project_occurrences" -> PyStr("hour")
      [] arg = "period" /\ name = "get_fault_occurrences" -> PyStr("day")
      [] OTHER -> None

\* ---- get_projects ----
get_projects_params(account_id) ==
    Item(Truthy(account_id), "account_id", account_id)

get_projects(c) ==
    /\ CanInvoke(c)
    /\ \E account_id \in Opt(Ints(7)) :
        /\ Enter(c, "get_projects", [account_id |-> account_id])
        /\ _make_request(c, "projects", "GET", get_projects_params(account_id), None)

\* ---- get_project ----
get_project(c) ==
    /\ CanInvoke(c)
    /\ \E project_id \in Ids :
        /\ Enter(c, "get_project", [project_id |-> project_id])
        /\ _make_request(c, "projects/" \o ToString(project_id), "GET", None, None)

\* ---- create_project ----
create_project_data(name, resolve_errors_on_deploy, disable_public_links, language, user_url, source_url, purge_days, user_search_field) ==
    "project" :>
        (   ("name" :> name)
         @@ Item(IsNotNone(resolve_errors_on_deploy), "resolve_errors_on_deploy", resolve_errors_on_deploy)
         @@ Item(IsNotNone(disable_public_links), "disable_public_links", disable_public_links)
         @@ Item(Truthy(language), "language", language)
         @@ Item(Truthy(user_url), "user_url", user_url)
         @@ Item(Truthy(source_url), "source_url", source_url)
         @@ Item(IsNotNone(purge_days), "purge_days", purge_days)
         @@ Item(Truthy(user_search_field), "user_search_field", user_search_field) )

create_project_params(account_id) ==
    Item(Truthy(account_id), "account_id", account_id)

create_project(c) ==
    /\ CanInvoke(c)
    /\ \E name \in Strs("shop"), account_id \in Opt(Ints(7)),
       resolve_errors_on_deploy \in Opt(Bools), disable_public_links \in Opt(Bools),
       language \in Opt(Strs("ruby")), user_url \in Opt(Strs("u")),
       source_url \in Opt(Strs("s")), purge_days \in Opt(Ints(30)),
       user_search_field \in Opt(Strs("f")) :
        /\ Enter(c, "create_project",
                 [name |-> name, account_id |-> account_id,
                  resolve_errors_on_deploy |-> resolve_errors_on_deploy,
                  disable_public_links |-> disable_public_links,
                  language |-> language, user_url |-> user_url,
                  source_url |-> source_url, purge_days |-> purge_days,
                  user_search_field |-> user_search_field])
        /\ _make_request(c, "projects", "POST", create_project_params(account_id),
                         create_project_data(name, resolve_errors_on_deploy,
                                             disable_public_links, language, user_url,
                                             source_url, purge_days, user_search_field))

\* ---- update_project ----
update_project_data(name, resolve_errors_on_deploy, disable_public_links, language, user_url, source_url, purge_days, user_search_field) ==
    "project" :>
        (   Item(Truthy(name), "name", name)
         @@ Item(IsNotNone(resolve_errors_on_deploy), "resolve_errors_on_deploy", resolve_errors_on_deploy)
         @@ Item(IsNotNone(disable_public_links), "disable_public_links", disable_public_links)
         @@ Item(Truthy(language), "language", language)
         @@ Item(Truthy(user_url), "user_url", user_url)
         @@ Item(Truthy(source_url), "source_url", source_url)
         @@ Item(IsNotNone(purge_days), "purge_days", purge_days)
         @@ Item(Truthy(user_search_field), "user_search_field", user_search_field) )

update_project(c) ==
    /\ CanInvoke(c)
    /\ \E project_id \in Ids, name \in Opt(Strs("shop")),
       resolve_errors_on_deploy \in Opt(Bools), disable_public_links \in Opt(Bools),
       language \in Opt(Strs("ruby")), user_url \in Opt(Strs("u")),
       source_url \in Opt(Strs("s")), purge_days \in Opt(Ints(30)),
       user_search_field \in Opt(Strs("f")) :
        /\ Enter(c, "update_project",
                 [project_id |-> project_id, name |-> name,
                  resolve_errors_on_deploy |-> resolve_errors_on_deploy,
                  disable_public_links |-> disable_public_links,
                  language |-> language, user_url |-> user_url,
                  source_url |-> source_url, purge_days |-> purge_days,
                  user_search_field |-> user_search_field])
        /\ _make_request(c, "projects/" \o ToString(project_id), "PUT", None,
                         update_project_data(name, resolve_errors_on_deploy,
                                             disable_public_links, language, user_url,
                                             source_url, purge_days, user_search_field))

\* ---- delete_project ----
delete_project(c) ==
    /\ CanInvoke(c)
    /\ \E project_id \in Ids :
        /\ Enter(c, "delete_project", [project_id |-> project_id])
        /\ _make_request(c, "projects/" \o ToString(project_id), "DELETE", None, None)

\* ---- get_project_occurrences ----
get_project_occurrences_params(period, environment) ==
       Item(Truthy(period), "period", period)
    @@ Item(Truthy(environment), "environment", environment)

\* a truth test in place of `project_id is None`
get_project_occurrences_endpoint_truthy(project_id) ==
    IF ~Truthy(project_id)
    THEN "projects/occurrences"
    ELSE "projects/" \o ToString(project_id.v) \o "/occurrences"

get_project_occurrences_endpoint(project_id) ==
    IF project_id = None
    THEN "projects/occurrences"
    ELSE "projects/" \o ToString(project_id.v) \o "/occurrences"

get_project_occurrences(c) ==
    /\ CanInvoke(c)
    /\ \E project_id \in Opt(IdValues), period \in WithDefault(Opt(Strs("week"))),
       environment \in Opt(Strs("production")) :
        /\ Enter(c, "get_project_occurrences",
                 [project_id |-> project_id, period |-> period, environment |-> environment])
        /\ _make_request(c, get_project_occurrences_endpoint(project_id), "GET",
                         get_project_occurrences_params(Bind(period, Default("get_project_occurrences", "period")), environment),
                         None)

\* ---- get_faults ----
get_faults_params(query, limit, order) ==
       Item(Truthy(query), "q", query)
    @@ Item(Truthy(limit), "limit", limit)
    @@ Item(Truthy(order), "order", order)

get_faults(c) ==
    /\ CanInvoke(c)
    /\ \E project_id \in Ids, query \in Opt(Strs("is:resolved")),
       limit \in WithDefault(Opt(Ints(10))), order \in WithDefault(Opt(Strs("frequent"))) :
        /\ Enter(c, "get_faults",
                 [project_id |-> project_id, query |-> query, limit |-> limit, order |-> order])
        /\ _make_request(c, "projects/" \o ToString(project_id) \o "/faults", "GET",
                         get_faults_params(query, Bind(limit, Default("get_faults", "limit")),
                                           Bind(order, Default("get_faults", "order"))),
                         None)

\* ---- get_fault_details ----
get_fault_details(c) ==
    /\ CanInvoke(c)
    /\ \E project_id \in Ids, fault_id \in Ids :
        /\ Enter(c, "get_fault_details", [project_id |-> project_id, fault_id |-> fault_id])
        /\ _make_request(c, "projects/" \o ToString(project_id) \o "/faults/" \o ToString(fault_id),
                         "GET", None, None)

\* ---- get_fault_summary ----
get_fault_summary_params(query) ==
    Item(Truthy(query), "q", query)

get_fault_summary(c) ==
    /\ CanInvoke(c)
    /\ \E project_id \in Ids, query \in Opt(Strs("is:resolved")) :
        /\ Enter(c, "get_fault_summary", [project_id |-> project_id, query |-> query])
        /\ _make_request(c, "projects/" \o ToString(project_id) \o "/faults/summary", "GET",
                         get_fault_summary_params(query), None)

\* ---- update_fault ----
\* truth tests in place of the `is not None` tests
update_fault_data_truthy(resolved, ignored, assignee_id) ==
    "fault" :>
        (   Item(Truthy(resolved), "resolved", resolved)
         @@ Item(Truthy(ignored), "ignored", ignored)
         @@ Item(Truthy(assignee_id), "assignee_id", assignee_id) )

update_fault_data(resolved, ignored, assignee_id) ==
    "fault" :>
        (   Item(IsNotNone(resolved), "resolved", resolved)
         @@ Item(IsNotNone(ignored), "ignored", ignored)
         @@ Item(IsNotNone(assignee_id), "assignee_id", assignee_id) )

update_fault(c) ==
    /\ CanInvoke(c)
    /\ \E project_id \in Ids, fault_id \in Ids, resolved \in Opt(Bools),
       ignored \in Opt(Bools), assignee_id \in Opt(Ints(7)) :
        /\ Enter(c, "update_fault",
                 [project_id |-> project_id, fault_id |-> fault_id, resolved |-> resolved,
                  ignored |-> ignored, assignee_id |-> assignee_id])
        /\ _make_request(c, "projects/" \o ToString(project_id) \o "/faults/" \o ToString(fault_id),
                         "PUT", None, update_fault_data(resolved, ignored, assignee_id))

\* method="DELETE" left out of the call: the default verb GET is used
delete_fault_default_method(c) ==
    /\ CanInvoke(c)
    /\ \E project_id \in Ids, fault_id \in Ids :
        /\ Enter(c, "delete_fault", [project_id |-> project_id, fault_id |-> fault_id])
        /\ _make_request(c, "projects/" \o ToString(project_id) \o "/faults/" \o ToString(fault_id),
                         "GET", None, None)

\* ---- delete_fault ----
delete_fault(c) ==
    /\ CanInvoke(c)
    /\ \E project_id \in Ids, fault_id \in Ids :
        /\ Enter(c, "delete_fault", [project_id |-> project_id, fault_id |-> fault_id])
        /\ _make_request(c, "projects/" \o ToString(project_id) \o "/faults/" \o ToString(fault_id),
                         "DELETE", None, None)

\* ---- get_fault_occurrences ----
get_fault_occurrences_params(period) ==
    Item(Truthy(period), "period", period)

get_fault_occurrences(c) ==
    /\ CanInvoke(c)
    /\ \E project_id \in Ids, fault_id \in Ids, period \in WithDefault(Opt(Strs("week"))) :
        /\ Enter(c, "get_fault_occurrences",
                 [project_id |-> project_id, fault_id |-> fault_id, period |-> period])
        /\ _make_request(c, "projects/" \o ToString(project_id) \o "/faults/"
                                \o ToString(fault_id) \o "/occurrences",
                         "GET", get_fault_occurrences_params(Bind(period, Default("get_fault_occurrences", "period"))), None)

\* ---- get_fault_notices ----
get_fault_notices_params(created_after, created_before, limit) ==
       Item(IsNotNone(created_after), "created_after", created_after)
    @@ Item(IsNotNone(created_before), "created_before", created_before)
    @@ Item(Truthy(limit), "limit", limit)

get_fault_notices(c) ==
    /\ CanInvoke(c)
    /\ \E project_id \in Ids, fault_id \in Ids, created_after \in Opt(Ints(1700000000)),
       created_before \in Opt(Ints(1800000000)), limit \in WithDefault(Opt(Ints(10))) :
        /\ Enter(c, "get_fault_notices",
                 [project_id |-> project_id, fault_id |-> fault_id,
                  created_after |-> created_after, created_before |-> created_before,
                  limit |-> limit])
        /\ _make_request(c, "projects/" \o ToString(project_id) \o "/faults/"
                                \o ToString(fault_id) \o "/notices",
                         "GET",
                         get_fault_notices_params(created_after, created_before,
                                                  Bind(limit, Default("get_fault_notices", "limit"))),
                         None)

\* ---- pause_fault_notifications ----
PAUSE_ARGUMENT_MISSING == "Either time or count must be specified"

\* the final else branch left out: an empty body is sent
pause_fault_notifications_data_unvalidated(time, count) ==
    IF Truthy(time) THEN "time" :> time
    ELSE IF Truthy(count) THEN "count" :> count
    ELSE EmptyDict

\* the body built from time and count, or None where the function returns the
\* local error instead
pause_fault_notifications_data(time, count) ==
    IF Truthy(time) THEN "time" :> time
    ELSE IF Truthy(count) THEN "count" :> count
    ELSE None

pause_fault_notifications(c) ==
    /\ CanInvoke(c)
    /\ \E project_id \in Ids, fault_id \in Ids, time \in Opt(Strs("hour")),
       count \in Opt(Ints(100)) :
        /\ Enter(c, "pause_fault_notifications",
                 [project_id |-> project_id, fault_id |-> fault_id, time |-> time,
                  count |-> count])
        /\ IF pause_fault_notifications_data(time, count) = None
           THEN ReturnLocal(c, ErrorDict(PAUSE_ARGUMENT_MISSING))
           ELSE _make_request(c, "projects/" \o ToString(project_id) \o "/faults/"
                                     \o ToString(fault_id) \o "/pause",
                              "POST", None, pause_fault_notifications_data(time, count))

\* ---- unpause_fault_notifications ----
unpause_fault_notifications(c) ==
    /\ CanInvoke(c)
    /\ \E project_id \in Ids, fault_id \in Ids :
        /\ Enter(c, "unpause_fault_notifications",
                 [project_id |-> project_id, fault_id |-> fault_id])
        /\ _make_request(c, "projects/" \o ToString(project_id) \o "/faults/"
                                \o ToString(fault_id) \o "/unpause",
                         "POST", None, None)

\* ---- bulk_resolve_faults ----
bulk_resolve_faults_params(query) ==
    Item(Truthy(query), "q", query)

bulk_resolve_faults(c) ==
    /\ CanInvoke(c)
    /\ \E project_id \in Ids, query \in Opt(Strs("is:resolved")) :
        /\ Enter(c, "bulk_resolve_faults", [project_id |-> project_id, query |-> query])
        /\ _make_request(c, "projects/" \o ToString(project_id) \o "/faults/resolve", "POST",
                         bulk_resolve_faults_params(query), None)

\* ---- get_config (resource honeybadger://config) ----
HoneybadgerConfig(api_token, base_url) == [api_token |-> api_token, base_url |-> base_url]

\* the token itself put into the configuration
get_config_value_disclosing ==
    HoneybadgerConfig(IF Truthy(HONEYBADGER_API_TOKEN)
                      THEN HONEYBADGER_API_TOKEN.v ELSE "Not configured",
                      HONEYBADGER_BASE_URL)

get_config_value ==
    HoneybadgerConfig(IF Truthy(HONEYBADGER_API_TOKEN) THEN "[REDACTED]" ELSE "Not configured",
                      HONEYBADGER_BASE_URL)

get_config(c) ==
    /\ c \in active
    /\ pc[c] = "idle"
    /\ Enter(c, "get_config", EmptyDict)
    /\ ReturnLocal(c, get_config_value)

\* ---- _make_request called directly, with any verb ----
Verbs == SupportedMethods \cup {"PATCH"}

call_make_request(c) ==
    /\ CanInvoke(c)
    /\ \E method \in Verbs :
        /\ Enter(c, "_make_request", [endpoint |-> "projects", method |-> method])
        /\ _make_request(c, "projects", method, None, None)

Init ==
    /\ HONEYBADGER_API_TOKEN \in TokenValues
    /\ active = {"c1"}
    /\ pc = [c \in Callers |-> "idle"]
    /\ op = [c \in Callers |-> "none"]
    /\ args = [c \in Callers |-> EmptyDict]
    /\ call = [c \in Callers |-> NoCall]
    /\ sent = [c \in Callers |-> NoRequest]
    /\ response = [c \in Callers |-> NoResponse]
    /\ parsed = [c \in Callers |-> FALSE]
    /\ result = [c \in Callers |-> NoResult]
    /\ http_requests = 0

Next ==
    \E c \in Callers :
        \/ get_projects(c)
        \/ get_project(c)
        \/ create_project(c)
        \/ update_project(c)
        \/ delete_project(c)
        \/ get_project_occurrences(c)
        \/ get_faults(c)
        \/ get_fault_details(c)
        \/ get_fault_summary(c)
        \/ update_fault(c)
        \/ delete_fault(c)
        \/ get_fault_occurrences(c)
        \/ get_fault_notices(c)
        \/ pause_fault_notifications(c)
        \/ unpause_fault_notifications(c)
        \/ bulk_resolve_faults(c)
        \/ call_make_request(c)
        \/ get_config(c)
        \/ receive_response(c)
        \/ take_result(c)

Spec == Init /\ [][Next]_vars

(***************************************************************************)
(* Concurrent invocations: both callers are active and their invocations   *)
(* interleave at the blocking HTTP call.  Two different secrets are among  *)
(* the tokens a run may start with.                                        *)
(***************************************************************************)
ConcTokenValues == TokenValues \cup {PyStr("hbp_other")}

InitConc ==
    /\ HONEYBADGER_API_TOKEN \in ConcTokenValues
    /\ active = Callers
    /\ pc = [c \in Callers |-> "idle"]
    /\ op = [c \in Callers |-> "none"]
    /\ args = [c \in Callers |-> EmptyDict]
    /\ call = [c \in Callers |-> NoCall]
    /\ sent = [c \in Callers |-> NoRequest]
    /\ response = [c \in Callers |-> NoResponse]
    /\ parsed = [c \in Callers |-> FALSE]
    /\ result = [c \in Callers |-> NoResult]
    /\ http_requests = 0

NextConc ==
    \E c \in Callers :
        \/ get_config(c)
        \/ get_projects(c)
        \/ delete_project(c)
        \/ unpause_fault_notifications(c)
        \/ receive_response(c)
        \/ take_result(c)

SpecConc == InitConc /\ [][NextConc]_vars

(***************************************************************************)
(* Properties.                                                             *)
(***************************************************************************)
Tools ==
    {"get_projects", "get_project", "create_project", "update_project", "delete_project",
     "get_project_occurrences", "get_faults", "get_fault_details", "get_fault_summary",
     "update_fault", "delete_fault", "get_fault_occurrences", "get_fault_notices",
     "pause_fault_notifications", "unpause_fault_notifications", "bulk_resolve_faults"}

\* no token in the environment, or an empty one
TokenUnset == HONEYBADGER_API_TOKEN \in {None, PyStr("")}

CredentialError == Returned(ErrorDict(CREDENTIAL_MISSING))
PauseError == Returned(ErrorDict(PAUSE_ARGUMENT_MISSING))

\* C1 as stated: with the token unset every tool, whatever its arguments,
\* returns exactly the credential-missing mapping, and no HTTP request is sent.
C1_AlwaysCredentialError ==
    TokenUnset =>
        /\ http_requests = 0
        /\ \A c \in Callers :
              (op[c] \in Tools /\ pc[c] # "idle") =>
                  (pc[c] = "done" /\ result[c] = CredentialError)

\* C1 amended: with the token unset no HTTP request is ever sent and every
\* tool returns at once; the value is the credential-missing mapping whenever
\* the tool reached _make_request, and the only other value is the local
\* validation error of pause_fault_notifications, returned before the
\* credential is looked at.
C1_CredentialErrorOrLocalError ==
    TokenUnset =>
        /\ http_requests = 0
        /\ \A c \in Callers :
              (op[c] \in Tools /\ pc[c] # "idle") =>
                  /\ pc[c] = "done"
                  /\ sent[c] = NoRequest
                  /\ call[c] # NoCall => result[c] = CredentialError
                  /\ call[c] = NoCall =>
                        (op[c] = "pause_fault_notifications" /\ result[c] = PauseError)

C1_Witness ==
    /\ TokenUnset
    /\ op["c1"] = "update_fault"
    /\ args["c1"].resolved = PyBool(TRUE)
    /\ pc["c1"] = "done"
    /\ result["c1"] = CredentialError
    /\ http_requests = 0

\* C3: pause_fault_notifications with time and count both omitted returns
\* exactly the "Either time or count must be specified" mapping, never calls
\* _make_request and sends no HTTP request, for every project and fault id.
C3_PauseWithoutArguments ==
    \A c \in Callers :
        (/\ op[c] = "pause_fault_notifications"
         /\ args[c].time = None
         /\ args[c].count = None) =>
            /\ pc[c] = "done"
            /\ result[c] = PauseError
            /\ call[c] = NoCall
            /\ sent[c] = NoRequest

C3_Witness ==
    /\ TokenConfigured
    /\ op["c1"] = "pause_fault_notifications"
    /\ args["c1"].time = None
    /\ args["c1"].count = None
    /\ args["c1"].project_id = 1
    /\ result["c1"] = PauseError
    /\ http_requests = 0

\* the keys of a mapping argument (None: no mapping was passed)
Keys(m) == IF m = None THEN {} ELSE DOMAIN m

\* the optional parameters that each tool copies into its query or body
\* mapping: <<parameter, mapping, key>>, the mapping being the query
\* ("params"), the body ("data") or the object nested in the body under
\* "project" or "fault".
OptionalFields(name) ==
    CASE name = "get_projects" -> {<<"account_id", "params", "account_id">>}
      [] name = "create_project" ->
            {<<"account_id", "params", "account_id">>,
             <<"resolve_errors_on_deploy", "project", "resolve_errors_on_deploy">>,
             <<"disable_public_links", "project", "disable_public_links">>,
             <<"language", "project", "language">>,
             <<"user_url", "project", "user_url">>,
             <<"source_url", "project", "source_url">>,
             <<"purge_days", "project", "purge_days">>,
             <<"user_search_field", "project", "user_search_field">>}
      [] name = "update_project" ->
            {<<"name", "project", "name">>,
             <<"resolve_errors_on_deploy", "project", "resolve_errors_on_deploy">>,
             <<"disable_public_links", "project", "disable_public_links">>,
             <<"language", "project", "language">>,
             <<"user_url", "project", "user_url">>,
             <<"source_url", "project", "source_url">>,
             <<"purge_days", "project", "purge_days">>,
             <<"user_search_field", "project", "user_search_field">>}
      [] name = "get_project_occurrences" ->
            {<<"period", "params", "period">>, <<"environment", "params", "environment">>}
      [] name = "get_faults" ->
            {<<"query", "params", "q">>, <<"limit", "params", "limit">>,
             <<"order", "params", "order">>}
      [] name = "get_fault_summary" -> {<<"query", "params", "q">>}
      [] name = "update_fault" ->
            {<<"resolved", "fault", "resolved">>, <<"ignored", "fault", "ignored">>,
             <<"assignee_id", "fault", "assignee_id">>}
      [] name = "get_fault_occurrences" -> {<<"period", "params", "period">>}
      [] name = "get_fault_notices" ->
            {<<"created_after", "params", "created_after">>,
             <<"created_before", "params", "created_before">>,
             <<"limit", "params", "limit">>}
      [] name = "pause_fault_notifications" ->
            {<<"time", "data", "time">>, <<"count", "data", "count">>}
      [] name = "bulk_resolve_faults" -> {<<"query", "params", "q">>}
      [] OTHER -> {}

\* the mapping of the call of _make_request that a field is copied into
MappingOf(c, where) ==
    CASE where = "params" -> call[c].params
      [] where = "data" -> call[c].data
      [] OTHER -> call[c].data[where]

\* the value the function body sees for a parameter
BoundArg(c, arg) == Bind(args[c][arg], Default(op[c], arg))

\* the calls of _make_request made by tools
ToolCalls == {c \in Callers : op[c] \in Tools /\ call[c] # NoCall}

\* C2: for every tool and optional parameter, the key is in the built query
\* or body mapping exactly if the value is not None, and then carries the
\* value: 0, "" and False are transmitted.  (count of
\* pause_fault_notifications is left to C4: time takes precedence over it.)
C2_KeyPresentIffSupplied ==
    \A c \in ToolCalls :
        \A f \in OptionalFields(op[c]) \ {<<"count", "data", "count">>} :
            /\ f[3] \in Keys(MappingOf(c, f[2])) <=> BoundArg(c, f[1]) # None
            /\ f[3] \in Keys(MappingOf(c, f[2])) =>
                  MappingOf(c, f[2])[f[3]] = BoundArg(c, f[1])

\* C4: pause_fault_notifications with time and count both supplied calls
\* _make_request with POST projects/{project_id}/faults/{fault_id}/pause and
\* the body {"time": time}, without a count key.
C4_TimeTakesPrecedence ==
    \A c \in Callers :
        (/\ op[c] = "pause_fault_notifications"
         /\ args[c].time # None
         /\ args[c].count # None) =>
            /\ call[c] # NoCall
            /\ call[c].method = "POST"
            /\ call[c].endpoint = "projects/" \o ToString(args[c].project_id) \o "/faults/"
                                     \o ToString(args[c].fault_id) \o "/pause"
            /\ call[c].data = [time |-> args[c].time]
            /\ sent[c] # NoRequest => sent[c].json = [time |-> args[c].time]

\* C5: update_fault calls _make_request with PUT and the body {"fault": F},
\* F holding exactly the fields among resolved, ignored and assignee_id that
\* are not None, each with its value (False and 0 included); the request
\* that is sent carries that body.
C5_UpdateFaultBody ==
    \A c \in Callers :
        op[c] = "update_fault" =>
            /\ call[c] # NoCall
            /\ call[c].method = "PUT"
            /\ DOMAIN call[c].data = {"fault"}
            /\ LET F == call[c].data.fault
                   fields == {"resolved", "ignored", "assignee_id"}
               IN  /\ DOMAIN F = {k \in fields : args[c][k] # None}
                   /\ \A k \in DOMAIN F : F[k] = args[c][k]
            /\ TokenConfigured => (sent[c] # NoRequest /\ sent[c].method = "PUT")
            /\ sent[c] # NoRequest => sent[c].json = call[c].data

C5_Witness ==
    /\ op["c1"] = "update_fault"
    /\ args["c1"].resolved = PyBool(FALSE)
    /\ args["c1"].ignored = None
    /\ args["c1"].assignee_id = PyInt(0)
    /\ pc["c1"] = "waiting"
    /\ sent["c1"].json = [fault |-> [resolved |-> PyBool(FALSE), assignee_id |-> PyInt(0)]]

\* C6 as stated: every optional field the caller leaves unset (not passed, or
\* passed as None) has no key in the query or body mapping, the fields with
\* a declared default (limit, order, period) included.
C6_UnsetFieldAbsent ==
    \A c \in ToolCalls :
        \A f \in OptionalFields(op[c]) :
            args[c][f[1]] \in {Omitted, None} => f[3] \notin Keys(MappingOf(c, f[2]))

\* C6 amended: every optional field whose value is None (passed as None, or
\* not passed where the declared default is None) has no key in the query or
\* body mapping; a field that is not passed and has a declared default other
\* than None (limit 25, order "recent", period "hour" or "day") has its key,
\* with the default as value.
C6_NoneFieldAbsent ==
    \A c \in ToolCalls :
        \A f \in OptionalFields(op[c]) :
            /\ BoundArg(c, f[1]) = None => f[3] \notin Keys(MappingOf(c, f[2]))
            /\ (args[c][f[1]] = Omitted /\ Default(op[c], f[1]) # None) =>
                  /\ f[3] \in Keys(MappingOf(c, f[2]))
                  /\ MappingOf(c, f[2])[f[3]] = Default(op[c], f[1])

C6_Witness ==
    /\ op["c1"] = "get_faults"
    /\ args["c1"].query = None
    /\ args["c1"].limit = Omitted
    /\ args["c1"].order = None
    /\ call["c1"] # NoCall
    /\ call["c1"].params = [limit |-> PyInt(25)]

\* C7: get_project_occurrences calls projects/occurrences when project_id is
\* None and projects/{project_id}/occurrences for every integer id, 0
\* included; the query mapping never holds a project_id key.
C7_OccurrencesEndpoint ==
    \A c \in Callers :
        op[c] = "get_project_occurrences" =>
            /\ call[c] # NoCall
            /\ args[c].project_id = None => call[c].endpoint = "projects/occurrences"
            /\ \A i \in Ids :
                  args[c].project_id = PyInt(i) =>
                      call[c].endpoint = "projects/" \o ToString(i) \o "/occurrences"
            /\ "project_id" \notin Keys(call[c].params)
            /\ sent[c] # NoRequest =>
                  /\ sent[c].url = HONEYBADGER_BASE_URL \o "/" \o call[c].endpoint
                  /\ "project_id" \notin Keys(sent[c].params)

C7_Witness ==
    /\ op["c1"] = "get_project_occurrences"
    /\ args["c1"].project_id = PyInt(0)
    /\ pc["c1"] = "waiting"
    /\ sent["c1"].url = "https://app.honeybadger.io/v2/projects/0/occurrences"

\* the callers whose HTTP call was answered with a response
Answered == {c \in Callers : pc[c] = "done" /\ response[c] # NoResponse /\ response[c].kind = "response"}

\* C8: on a response with status 204 _make_request returns exactly
\* {"status": "success"} and does not call response.json(), whatever the
\* method, the endpoint and the body; on any other status below 400 it
\* returns the decoded JSON body as it is.
C8_NoContentIsSuccess ==
    \A c \in Answered :
        /\ response[c].status = 204 =>
              (result[c] = Returned(SUCCESS) /\ ~parsed[c])
        /\ (response[c].status < 400 /\ response[c].status # 204 /\ IsJson(response[c].text)) =>
              (result[c] = Returned(json(response[c].text)) /\ parsed[c])

C8_Witness ==
    /\ op["c1"] = "delete_fault"
    /\ pc["c1"] = "done"
    /\ response["c1"] = [kind |-> "response", status |-> 204, text |-> ""]
    /\ sent["c1"].method = "DELETE"
    /\ result["c1"] = Returned(SUCCESS)
    /\ ~parsed["c1"]

\* C9: on a response with a status of 400 or more _make_request returns (it
\* does not raise) a mapping whose only key is error, with the text of the
\* HTTPError of raise_for_status; it never returns {"status": "success"} nor
\* the decoded body, and never calls response.json().
C9_HttpErrorIsErrorMapping ==
    \A c \in Answered :
        response[c].status >= 400 =>
            /\ result[c].kind = "returned"
            /\ DOMAIN result[c].value = {"error"}
            /\ result[c].value.error = HTTPErrorText(response[c].status, sent[c].url)
            /\ result[c].value # SUCCESS
            /\ IsJson(response[c].text) => result[c].value # json(response[c].text)
            /\ ~parsed[c]

C9_Witness ==
    /\ op["c1"] = "get_project"
    /\ pc["c1"] = "done"
    /\ response["c1"] = [kind |-> "response", status |-> 404, text |-> "{\"error\":\"remote\"}"]
    /\ result["c1"] =
          Returned([error |-> "404 Client Error: Not Found for url: https://app.honeybadger.io/v2/projects/1"])

\* C10: no invocation of a tool ends by raising: a finished invocation has
\* returned a value, and a connection error, a timeout or a body that is not
\* JSON is returned as {"error": <text of the exception>}.
C10_NoFaultPropagates ==
    \A c \in Callers :
        op[c] \in Tools =>
            /\ result[c].kind # "raised"
            /\ pc[c] = "done" => result[c].kind = "returned"
            /\ (pc[c] = "done" /\ response[c] # NoResponse) =>
                  /\ response[c].kind = "fault" =>
                        result[c].value = ErrorDict(ExceptionText(response[c].exc))
                  /\ (/\ response[c].kind = "response"
                      /\ response[c].status \in {200, 201}
                      /\ ~IsJson(response[c].text)) =>
                        result[c].value = ErrorDict(ExceptionText("JSONDecodeError"))

C10_Witness ==
    /\ op["c1"] = "create_project"
    /\ pc["c1"] = "done"
    /\ response["c1"] = [kind |-> "fault", exc |-> "Timeout"]
    /\ result["c1"] = Returned([error |-> "Read timed out"])

\* the verb and the relative endpoint of the operation table
TableMethod(name) ==
    CASE name \in {"get_projects", "get_project", "get_faults", "get_fault_details",
                   "get_fault_summary", "get_fault_occurrences", "get_fault_notices"} -> "GET"
      [] name \in {"create_project", "pause_fault_notifications",
                   "unpause_fault_notifications", "bulk_resolve_faults"} -> "POST"
      [] name \in {"update_project", "update_fault"} -> "PUT"
      [] name \in {"delete_project", "delete_fault"} -> "DELETE"

TableEndpoint(name, p, f) ==
    CASE name \in {"get_projects", "create_project"} -> "projects"
      [] name \in {"get_project", "update_project", "delete_project"} -> "projects/" \o p
      [] name = "get_faults" -> "projects/" \o p \o "/faults"
      [] name \in {"get_fault_details", "update_fault", "delete_fault"} ->
            "projects/" \o p \o "/faults/" \o f
      [] name = "get_fault_summary" -> "projects/" \o p \o "/faults/summary"
      [] name = "get_fault_occurrences" -> "projects/" \o p \o "/faults/" \o f \o "/occurrences"
      [] name = "get_fault_notices" -> "projects/" \o p \o "/faults/" \o f \o "/notices"
      [] name = "pause_fault_notifications" -> "projects/" \o p \o "/faults/" \o f \o "/pause"
      [] name = "unpause_fault_notifications" -> "projects/" \o p \o "/faults/" \o f \o "/unpause"
      [] name = "bulk_resolve_faults" -> "projects/" \o p \o "/faults/resolve"

\* an identifier argument as text ("" where the tool has no such argument)
IdText(c, arg) == IF arg \in DOMAIN args[c] THEN ToString(args[c][arg]) ELSE ""

\* C11: each operation of the table calls _make_request with the table's verb
\* and relative endpoint, for all identifiers, and the request that is sent
\* has that verb and that endpoint under the base URL; no tool issues a verb
\* outside GET, POST, PUT, DELETE.
C11_OperationTable ==
    \A c \in ToolCalls :
        /\ call[c].method \in {"GET", "POST", "PUT", "DELETE"}
        /\ op[c] # "get_project_occurrences" =>
              /\ call[c].method = TableMethod(op[c])
              /\ call[c].endpoint =
                    TableEndpoint(op[c], IdText(c, "project_id"), IdText(c, "fault_id"))
              /\ sent[c] # NoRequest =>
                    /\ sent[c].method = TableMethod(op[c])
                    /\ sent[c].url =
                          "https://app.honeybadger.io/v2/"
                              \o TableEndpoint(op[c], IdText(c, "project_id"),
                                               IdText(c, "fault_id"))

C11_Witness ==
    /\ op["c1"] = "delete_fault"
    /\ args["c1"].project_id = 1
    /\ args["c1"].fault_id = 0
    /\ pc["c1"] = "waiting"
    /\ sent["c1"].method = "DELETE"
    /\ sent["c1"].url = "https://app.honeybadger.io/v2/projects/1/faults/0"

\* C14: every HTTP request that is sent goes to the fixed base URL, a "/"
\* and the endpoint, with HTTP Basic credentials made of the configured
\* (non-empty) token as user name and the empty password; no request is sent
\* without them, or with a bearer header instead.
C14_BasicAuthFixedBase ==
    \A c \in Callers :
        sent[c] # NoRequest =>
            /\ sent[c].url = "https://app.honeybadger.io/v2" \o "/" \o call[c].endpoint
            /\ sent[c].auth = <<HONEYBADGER_API_TOKEN, "">>
            /\ HONEYBADGER_API_TOKEN \notin {None, PyStr("")}
            /\ "Authorization" \notin DOMAIN sent[c].headers

C14_Witness ==
    /\ op["c1"] = "bulk_resolve_faults"
    /\ pc["c1"] = "waiting"
    /\ sent["c1"].url = "https://app.honeybadger.io/v2/projects/1/faults/resolve"
    /\ sent["c1"].auth = <<PyStr("hbp_secret"), "">>

\* C15: pause_fault_notifications returns the "Either time or count must be
\* specified" mapping only when time and count are both None; with at least
\* one of them supplied (0 and "" included) it calls _make_request with a
\* body that holds exactly one of the keys time and count, with the value
\* supplied.
C15_LocalErrorOnlyWhenNeither ==
    \A c \in Callers :
        (op[c] = "pause_fault_notifications" /\ pc[c] # "idle") =>
            /\ result[c] = PauseError => (args[c].time = None /\ args[c].count = None)
            /\ (args[c].time # None \/ args[c].count # None) =>
                  /\ call[c] # NoCall
                  /\ \/ (args[c].time # None /\ call[c].data = [time |-> args[c].time])
                     \/ (args[c].count # None /\ call[c].data = [count |-> args[c].count])

\* the direct calls of _make_request with a verb it does not support
BadVerbCalls ==
    {c \in Callers : /\ op[c] = "_make_request"
                     /\ args[c].method \notin {"GET", "POST", "PUT", "DELETE"}}

\* C16 as stated: called with a verb outside GET, POST, PUT, DELETE,
\* _make_request raises and sends no HTTP request, with or without a token.
C16_BadVerbAlwaysRaises ==
    \A c \in BadVerbCalls :
        /\ pc[c] = "done"
        /\ result[c].kind = "raised"
        /\ sent[c] = NoRequest

\* C16 amended: called with a verb outside GET, POST, PUT, DELETE,
\* _make_request never sends an HTTP request; with a token configured it
\* raises (a ValueError that its except clause does not catch), and with no
\* token it returns the credential-missing mapping, the credential check
\* coming before the verb dispatch.
C16_BadVerbRaisesWhenConfigured ==
    \A c \in BadVerbCalls :
        /\ pc[c] = "done"
        /\ sent[c] = NoRequest
        /\ HONEYBADGER_API_TOKEN \notin {None, PyStr("")} => result[c] = Raised("ValueError")
        /\ HONEYBADGER_API_TOKEN \in {None, PyStr("")} => result[c] = CredentialError

C16_Witness ==
    /\ HONEYBADGER_API_TOKEN = PyStr("hbp_secret")
    /\ op["c1"] = "_make_request"
    /\ args["c1"].method = "PATCH"
    /\ result["c1"] = Raised("ValueError")
    /\ sent["c1"] = NoRequest
    /\ http_requests = 0

\* what one step does to the invocation of caller c, as far as HTTP requests
\* go
OneRequestStep(c) ==
    \* an invocation that starts sends one request exactly if it gets past the
    \* credential check and its local validation, and then blocks in that call
    /\ (pc[c] = "idle" /\ pc'[c] # "idle" /\ op'[c] \in Tools) =>
          IF HONEYBADGER_API_TOKEN \notin {None, PyStr("")} /\ call'[c] # NoCall
          THEN /\ pc'[c] = "waiting"
               /\ sent'[c] # NoRequest
               /\ http_requests' = http_requests + 1
          ELSE /\ pc'[c] = "done"
               /\ sent'[c] = NoRequest
               /\ http_requests' = http_requests
    \* a running invocation stays the same function with the same request
    /\ (pc[c] # "idle" /\ pc'[c] # "idle") =>
          (op'[c] = op[c] /\ call'[c] = call[c] /\ sent'[c] = sent[c])

\* C12: an invocation that passes the credential check and its local
\* validation sends exactly one HTTP request before it returns; no invocation
\* sends more than one (no retry, no follow-up), one step never sends two,
\* and a running invocation never turns into another operation.
C12_OneRequestPerInvocation ==
    [][ /\ \A c \in Callers : OneRequestStep(c)
        \* a request is only ever sent as the one request of an invocation that
        \* starts: a blocked or finished invocation sends nothing more
        /\ http_requests' # http_requests =>
              /\ http_requests' = http_requests + 1
              /\ \E c \in Callers :
                    pc[c] = "idle" /\ pc'[c] = "waiting" /\ sent'[c] # NoRequest ]_vars

C12_Witness ==
    /\ op["c1"] = "get_faults"
    /\ pc["c1"] = "done"
    /\ response["c1"] = [kind |-> "fault", exc |-> "ConnectionError"]
    /\ http_requests = 1

\* everything an invocation of caller c holds
Frame(c) == <<pc[c], op[c], args[c], call[c], sent[c], response[c], parsed[c], result[c]>>

\* two invocations of the same function with the same arguments have built
\* the same call and the same request, and on the same answer of the
\* transport have returned the same value, wherever the other one stands
SameInSameOut ==
    \A c, d \in Callers :
        (pc[c] # "idle" /\ pc[d] # "idle" /\ op[c] = op[d] /\ args[c] = args[d]) =>
            /\ call[c] = call[d]
            /\ sent[c] = sent[d]
            /\ (pc[c] = "done" /\ pc[d] = "done" /\ response[c] = response[d]) =>
                  (result[c] = result[d] /\ parsed[c] = parsed[d])

\* a step is the step of one invocation: it leaves everything the other
\* invocations hold as it was, and it never writes the token
OwnFrameOnly ==
    /\ HONEYBADGER_API_TOKEN' = HONEYBADGER_API_TOKEN
    /\ \A c, d \in Callers :
          (c # d /\ Frame(c)' # Frame(c)) => Frame(d)' = Frame(d)

\* C13: under any interleaving of concurrent invocations, an invocation
\* builds the request and returns the value that its own arguments and its
\* own response determine; no step of one invocation changes what another
\* holds, and the token keeps its start-up value.
C13_InvocationsIndependent ==
    [](SameInSameOut) /\ [][OwnFrameOnly]_vars

C13_Witness ==
    /\ op["c1"] = "get_projects"
    /\ op["c2"] = "get_projects"
    /\ args["c1"] = args["c2"]
    /\ pc["c1"] = "done"
    /\ pc["c2"] = "waiting"
    /\ response["c1"] = [kind |-> "response", status |-> 500, text |-> ""]
    /\ sent["c1"] = sent["c2"]
    /\ http_requests = 2

\* C17: get_config never discloses the token: its api_token is "[REDACTED]"
\* for every non-empty token and "Not configured" otherwise, so the value
\* returned is the same for any two secrets; base_url is the fixed base URL.
C17_ConfigRedacted ==
    \A c \in Callers :
        (op[c] = "get_config" /\ pc[c] = "done") =>
            /\ result[c].kind = "returned"
            /\ DOMAIN result[c].value = {"api_token", "base_url"}
            /\ result[c].value.base_url = "https://app.honeybadger.io/v2"
            /\ result[c].value.api_token =
                  IF HONEYBADGER_API_TOKEN \in {None, PyStr("")}
                  THEN "Not configured" ELSE "[REDACTED]"
            /\ HONEYBADGER_API_TOKEN # None =>
                  result[c].value.api_token # HONEYBADGER_API_TOKEN.v

C17_Witness ==
    /\ HONEYBADGER_API_TOKEN = PyStr("hbp_other")
    /\ op["c1"] = "get_config"
    /\ pc["c1"] = "done"
    /\ result["c1"] =
          Returned([api_token |-> "[REDACTED]", base_url |-> "https://app.honeybadger.io/v2"])

====
